---------------------------- MODULE Spec2Model ----------------------------
(***************************************************************************)
(* Model of bot.py: the real-time per-speaker audio segmentation and       *)
(* transcription pipeline of the Discord voice bot.                        *)
(*                                                                         *)
(*   StreamingAudioBuffer        add_audio / get_audio_chunk /             *)
(*                               get_remaining_audio                       *)
(*   RealtimeTranscriptionEngine start / submit_audio / get_result /       *)
(*                               _transcription_worker                     *)
(*   RealtimeVoiceProcessor      start_processing / stop_processing /      *)
(*                               process_audio / the two asyncio loops     *)
(*   commands and events         join / leave / on_voice_state_update      *)
(*                                                                         *)
(* Audio is measured in bytes, as in the source.  A bytearray is modelled  *)
(* as a sequence of blocks of BlockBytes bytes each; every frame fed to    *)
(* the model is a whole number of blocks, and BlockBytes divides every     *)
(* byte constant of the source, so every slice index of the source falls   *)
(* on a block boundary.  A block is named <<guild, user, n>>: the n-th     *)
(* block the transport delivered for that speaker.  Time is in ms.         *)
(***************************************************************************)
EXTENDS Integers, Sequences, FiniteSets, TLC

\* ------------------------------------------------------------------------
\* Configuration (bot.py lines 30-44)
\* ------------------------------------------------------------------------
REALTIME_CHUNK_DURATION_MS == 1200
SILENCE_THRESHOLD_MS == 1000
OVERLAP_DURATION_MS == 200
WHISPER_SAMPLE_RATE == 16000
PCM_SAMPLE_RATE == 48000
PCM_CHANNELS == 2

REALTIME_CHUNK_SAMPLES == (WHISPER_SAMPLE_RATE * REALTIME_CHUNK_DURATION_MS) \div 1000
REALTIME_CHUNK_BYTES == REALTIME_CHUNK_SAMPLES * 2

\* int(REALTIME_CHUNK_BYTES * OVERLAP_DURATION_MS / REALTIME_CHUNK_DURATION_MS)
OverlapBytes == (REALTIME_CHUNK_BYTES * OVERLAP_DURATION_MS) \div REALTIME_CHUNK_DURATION_MS

\* REALTIME_CHUNK_BYTES // 2, the worker's minimum task size
MinTaskBytes == REALTIME_CHUNK_BYTES \div 2

\* frame_size of apply_vad: int(sample_rate * 30 / 1000) * 2
VadFrameBytes == ((WHISPER_SAMPLE_RATE * 30) \div 1000) * 2

\* Granularity of the model's byte sequences: one block is half of OverlapBytes
\* (100 ms of resampled audio).
BlockBytes == OverlapBytes \div 2

\* Raw (48 kHz stereo) bytes that resample to exactly one block.
RawBlockBytes == BlockBytes * PCM_CHANNELS * (PCM_SAMPLE_RATE \div WHISPER_SAMPLE_RATE)

\* ------------------------------------------------------------------------
\* Bounds of the model
\* ------------------------------------------------------------------------
MaxFrameBlocks == 6     \* largest frame the transport delivers, in blocks
MaxBufBlocks == 26      \* blocks fed to the single buffer of BufferSpec
MaxNowTicks == 3        \* clock ticks
TickMs == 500           \* ms per clock tick
MaxTasks == 3           \* tasks submitted to the engine in EngineSpec
MaxWorkers == 2         \* worker threads ever started
MaxFed == 12            \* blocks delivered per speaker in the session specifications
MaxJoins == 2           \* !join commands that reach start_processing
UtteranceMs == 1500     \* length of the one utterance of UtteranceSpec, in ms

\* ------------------------------------------------------------------------
\* Optional values: None is <<>>, a value v is <<v>>
\* ------------------------------------------------------------------------
None == <<>>
Some(v) == <<v>>
Truthy(opt) == opt # None /\ Len(opt[1]) > 0

ByteLen(bytes) == Len(bytes) * BlockBytes

\* bytes[a:b] of the source, a and b byte offsets on block boundaries,
\* clipped to the sequence as Python slicing clips.
Slice(bytes, a, b) ==
    LET lo == a \div BlockBytes
        hi == IF b \div BlockBytes > Len(bytes) THEN Len(bytes) ELSE b \div BlockBytes
    IN  IF hi <= lo THEN <<>> ELSE SubSeq(bytes, lo + 1, hi)

\* ------------------------------------------------------------------------
\* AudioUtils
\* ------------------------------------------------------------------------
\* Length in bytes of resample_audio(audio_data, 48000, 16000) for a raw frame
\* of rawBytes bytes: int16 samples, stereo pairs averaged to mono when the
\* sample count is even, then int(len * ratio) samples of 2 bytes.
ResampledBytes(rawBytes) ==
    LET samples == rawBytes \div 2
        mono == IF samples % PCM_CHANNELS = 0 THEN samples \div PCM_CHANNELS ELSE samples
        new_length == (mono * WHISPER_SAMPLE_RATE) \div PCM_SAMPLE_RATE
    IN  new_length * 2

\* apply_vad on a resampled frame of nbytes bytes.  classifier is what
\* webrtcvad does on the frame: "speech" (some 30 ms unit is speech),
\* "silence" (none is) or "error" (it raises, and the gate fails open).
VadOutcomes == {"speech", "silence", "error"}

apply_vad(nbytes, classifier) ==
    IF classifier = "error" THEN TRUE
    ELSE IF nbytes < VadFrameBytes THEN FALSE
    ELSE classifier = "speech"

\* ------------------------------------------------------------------------
\* StreamingAudioBuffer
\* ------------------------------------------------------------------------
NewBuffer(user_id, username) ==
    [ user_id |-> user_id,
      username |-> username,
      last_speech_time |-> 0,
      is_speaking |-> FALSE,
      accumulated_audio |-> <<>>,
      last_processed_buffer_length |-> 0 ]

\* An add_audio that ends the utterance as soon as the silence has lasted the
\* threshold, not only once it has lasted longer.
add_audio_threshold_reached(b, resampled, has_speech, current_time) ==
    LET acc == b.accumulated_audio \o resampled
        b1  == [b EXCEPT !.accumulated_audio = acc]
    IN  IF has_speech
        THEN [ buf |-> [b1 EXCEPT !.last_speech_time = current_time,
                                  !.is_speaking = TRUE],
               ret |-> FALSE ]
        ELSE IF b.is_speaking /\ (current_time - b.last_speech_time) >= SILENCE_THRESHOLD_MS
             THEN [ buf |-> [b1 EXCEPT !.is_speaking = FALSE],
                    ret |-> Len(acc) > 0 ]
             ELSE [ buf |-> b1, ret |-> FALSE ]

\* An add_audio that keeps a frame only when it has speech or comes inside an
\* utterance: silence outside an utterance is dropped.
add_audio_gated(b, resampled, has_speech, current_time) ==
    LET acc == IF has_speech \/ b.is_speaking
               THEN b.accumulated_audio \o resampled
               ELSE b.accumulated_audio
        b1  == [b EXCEPT !.accumulated_audio = acc]
    IN  IF has_speech
        THEN [ buf |-> [b1 EXCEPT !.last_speech_time = current_time,
                                  !.is_speaking = TRUE],
               ret |-> FALSE ]
        ELSE IF b.is_speaking /\ (current_time - b.last_speech_time) > SILENCE_THRESHOLD_MS
             THEN [ buf |-> [b1 EXCEPT !.is_speaking = FALSE],
                    ret |-> Len(acc) > 0 ]
             ELSE [ buf |-> b1, ret |-> FALSE ]

\* add_audio: resampled is the resampled frame (a sequence of blocks),
\* has_speech the gate's verdict on it, current_time the clock in ms.
\* Returns the buffer after the call and the utterance-end signal.
add_audio(b, resampled, has_speech, current_time) ==
    LET acc == b.accumulated_audio \o resampled
        b1  == [b EXCEPT !.accumulated_audio = acc]
    IN  IF has_speech
        THEN [ buf |-> [b1 EXCEPT !.last_speech_time = current_time,
                                  !.is_speaking = TRUE],
               ret |-> FALSE ]
        ELSE IF b.is_speaking /\ (current_time - b.last_speech_time) > SILENCE_THRESHOLD_MS
             THEN [ buf |-> [b1 EXCEPT !.is_speaking = FALSE],
                    ret |-> Len(acc) > 0 ]
             ELSE [ buf |-> b1, ret |-> FALSE ]

\* A get_audio_chunk that cuts from the cursor on, without the overlap.
get_audio_chunk_from_cursor(b) ==
    LET new_data_length == ByteLen(b.accumulated_audio) - b.last_processed_buffer_length
        chunk_start_index == b.last_processed_buffer_length
        chunk_end_index == chunk_start_index + REALTIME_CHUNK_BYTES
    IN  IF new_data_length >= REALTIME_CHUNK_BYTES
        THEN [ buf |-> [b EXCEPT !.last_processed_buffer_length = chunk_end_index],
               ret |-> Some(Slice(b.accumulated_audio, chunk_start_index, chunk_end_index)) ]
        ELSE [ buf |-> b, ret |-> None ]

\* A get_audio_chunk that counts the overlap it re-reads as new data.
get_audio_chunk_overlap_counted(b) ==
    LET new_data_length == ByteLen(b.accumulated_audio) - b.last_processed_buffer_length
        start0 == b.last_processed_buffer_length - OverlapBytes
        chunk_start_index == IF start0 < 0 THEN 0 ELSE start0
        chunk_end_index == chunk_start_index + REALTIME_CHUNK_BYTES
    IN  IF new_data_length + OverlapBytes >= REALTIME_CHUNK_BYTES
        THEN [ buf |-> [b EXCEPT !.last_processed_buffer_length = chunk_end_index],
               ret |-> Some(Slice(b.accumulated_audio, chunk_start_index, chunk_end_index)) ]
        ELSE [ buf |-> b, ret |-> None ]

\* get_audio_chunk: returns the buffer after the call and Optional[bytes].
get_audio_chunk(b) ==
    LET new_data_length == ByteLen(b.accumulated_audio) - b.last_processed_buffer_length
        start0 == b.last_processed_buffer_length - OverlapBytes
        chunk_start_index == IF start0 < 0 THEN 0 ELSE start0
        chunk_end_index == chunk_start_index + REALTIME_CHUNK_BYTES
    IN  IF new_data_length >= REALTIME_CHUNK_BYTES
        THEN [ buf |-> [b EXCEPT !.last_processed_buffer_length = chunk_end_index],
               ret |-> Some(Slice(b.accumulated_audio, chunk_start_index, chunk_end_index)) ]
        ELSE [ buf |-> b, ret |-> None ]

\* A get_remaining_audio without the length test: an empty accumulator is
\* returned as an empty chunk.
get_remaining_audio_unguarded(b) ==
    [ buf |-> [b EXCEPT !.accumulated_audio = <<>>,
                        !.last_processed_buffer_length = 0],
      ret |-> Some(b.accumulated_audio) ]

\* get_remaining_audio: returns the buffer after the call and Optional[bytes].
get_remaining_audio(b) ==
    IF Len(b.accumulated_audio) > 0
    THEN [ buf |-> [b EXCEPT !.accumulated_audio = <<>>,
                             !.last_processed_buffer_length = 0],
           ret |-> Some(b.accumulated_audio) ]
    ELSE [ buf |-> b, ret |-> None ]


\* ------------------------------------------------------------------------
\* State
\* ------------------------------------------------------------------------
Guilds == {1, 2}
Users == {1, 2}

\* display name of a user
Name(u) == IF u = 1 THEN "alice" ELSE "bob"

VARIABLES
    now,        \* time.time(), in ms
    fed,        \* fed[<<g, u>>]: blocks add_audio has appended for speaker u of guild g
    buffer,     \* BufferSpec: the one StreamingAudioBuffer under test
    last_call,  \* BufferSpec: the last call on it: [op, pre, ret, has_speech]
    race,       \* RaceSpec: where the two threads are inside their calls on it
    \* RealtimeTranscriptionEngine
    is_running,
    transcription_queue,
    result_queue,
    workers,    \* the threads start() has created: a sequence of [pc, task]
    \* history of the engine
    handed,     \* the number of calls of submit_audio so far
    submitted,  \* every task submit_audio has enqueued, in order; a task's id is its index
    ended,      \* ended[id]: how the worker finished task id: [how, text], how one of
                \* "skipped" (too short), "raised", "returned"; text what the engine returned
    produced,   \* every result the worker has put on result_queue, in order
    \* RealtimeVoiceProcessor
    audio_buffers,     \* guild -> the guild's buffers, in the insertion order of the dict
    text_channels,     \* guild -> channel
    result_polling_tasks,              \* guild -> asyncio task: [id, done]
    periodic_chunk_processing_tasks,   \* guild -> asyncio task: [id, done]
    \* the bot
    voice_processor,   \* the global: "unset" before on_ready, then "ready", or "none"
                       \* when on_ready failed and left it None
    connections,       \* guild -> voice client: [connected, listening]
    command,           \* command[g]: the !join or !leave in progress for guild g
    transport,         \* transport[g]: the voice-receive thread of guild g inside
                       \* OptimizedAudioSink.write
    \* history of the dispatch
    ntasks,            \* asyncio tasks created so far
    sent,              \* every message sent: [channel, result]
    discarded          \* every result a polling loop took and did not send: [by, result]

clockVars == <<now, fed>>
bufVars == <<buffer, last_call, race>>
engineVars == <<is_running, transcription_queue, result_queue, workers>>
historyVars == <<handed, submitted, ended, produced>>

procVars == <<audio_buffers, text_channels, result_polling_tasks,
              periodic_chunk_processing_tasks>>
botVars == <<voice_processor, connections, command, transport>>
dispatchVars == <<ntasks, sent, discarded>>

\* what the calls on the buffer under test leave alone
nonBufVars == <<engineVars, historyVars, procVars, botVars, dispatchVars>>
\* what the engine leaves alone
nonEngineVars == <<clockVars, bufVars, procVars, botVars, dispatchVars>>

\* The resampled frame of a raw frame of rawBytes bytes for speaker u of guild g.
ResampledFrame(g, u, rawBytes) ==
    [i \in 1..(ResampledBytes(rawBytes) \div BlockBytes) |-> <<g, u, fed[<<g, u>>] + i>>]

RawFrameLens == {k * RawBlockBytes : k \in 1..MaxFrameBlocks}

\* time passes
Tick ==
    /\ now < MaxNowTicks * TickMs
    /\ now' = now + TickMs
    /\ UNCHANGED fed

\* ------------------------------------------------------------------------
\* RealtimeTranscriptionEngine
\* ------------------------------------------------------------------------
\* A transcription is a sequence of tokens; " " is whitespace.
Whitespace == {" "}
Tokens == {" ", "Thanks for watching!", "ok"}

\* HALLUCINATION_TEXTS, restricted to the phrases spelled with Tokens
HALLUCINATION_TEXTS == { <<"Thanks for watching!">> }

RECURSIVE LStrip(_)
LStrip(t) == IF t # <<>> /\ Head(t) \in Whitespace THEN LStrip(Tail(t)) ELSE t

RECURSIVE RStrip(_)
RStrip(t) ==
    IF t # <<>> /\ t[Len(t)] \in Whitespace THEN RStrip(SubSeq(t, 1, Len(t) - 1)) ELSE t

\* str.strip()
Strip(t) == RStrip(LStrip(t))

\* The texts the speech engine is made to return: empty, whitespace only,
\* padded plain text, a denylisted phrase bare and padded, and a denylisted
\* phrase inside a longer text.
EngineTexts ==
    { <<>>,
      <<" ">>,
      <<" ", "ok", " ">>,
      <<"Thanks for watching!">>,
      <<" ", "Thanks for watching!", " ">>,
      <<"ok", " ", "Thanks for watching!">> }

\* What the speech engine does with one task: it raises (at temp-file creation,
\* at the WAV write, in transcribe or while iterating the segments), or it
\* returns segments whose texts concatenate to text.
EngineOutcomes ==
    { [raises |-> TRUE, text |-> <<>>] }
    \cup { [raises |-> FALSE, text |-> t] : t \in EngineTexts }

\* The engine's queues and history as submit_audio changes them.
EngineState == [ queue |-> transcription_queue, submitted |-> submitted, handed |-> handed ]

\* submit_audio, applied to an EngineState.  id and channel are history kept
\* with the task: its number, and the text channel the guild's session had
\* when the task was handed over; the code reads neither.
submit_audio(es, audio_data, user_id, username, guild_id) ==
    IF is_running
    THEN LET task == [ audio_data |-> audio_data,
                       user_id |-> user_id,
                       username |-> username,
                       guild_id |-> guild_id,
                       timestamp |-> now,
                       id |-> Len(es.submitted) + 1,
                       channel |-> IF guild_id \in DOMAIN text_channels
                                   THEN Some(text_channels[guild_id]) ELSE None ]
         IN  [ queue |-> Append(es.queue, task),
               submitted |-> Append(es.submitted, task),
               handed |-> es.handed + 1 ]
    ELSE [es EXCEPT !.handed = @ + 1]

\* start(): a new worker thread unless the engine is running
EngineStarted ==
    IF ~is_running
    THEN [ is_running |-> TRUE,
           workers |-> Append(workers, [pc |-> "check", task |-> None]) ]
    ELSE [ is_running |-> is_running, workers |-> workers ]

\* A filter that compares the untrimmed text with the denylist.
WorkerResult_untrimmed_compare(task, text) ==
    LET stripped_transcription == Strip(text)
    IN  IF stripped_transcription # <<>> /\ text \notin HALLUCINATION_TEXTS
        THEN Some([ user_id |-> task.user_id,
                    username |-> task.username,
                    guild_id |-> task.guild_id,
                    transcription |-> stripped_transcription,
                    timestamp |-> task.timestamp,
                    task |-> task.id ])
        ELSE None

\* A worker that attributes the text to the speaker of the newest task.
WorkerResult_newest_speaker(task, text) ==
    LET stripped_transcription == Strip(text)
        newest == submitted[Len(submitted)]
    IN  IF stripped_transcription # <<>> /\ stripped_transcription \notin HALLUCINATION_TEXTS
        THEN Some([ user_id |-> newest.user_id,
                    username |-> newest.username,
                    guild_id |-> newest.guild_id,
                    transcription |-> stripped_transcription,
                    timestamp |-> task.timestamp,
                    task |-> task.id ])
        ELSE None

\* The result the worker puts for a task, if any: Optional[result].
WorkerResult(task, text) ==
    LET stripped_transcription == Strip(text)
    IN  IF stripped_transcription # <<>> /\ stripped_transcription \notin HALLUCINATION_TEXTS
        THEN Some([ user_id |-> task.user_id,
                    username |-> task.username,
                    guild_id |-> task.guild_id,
                    transcription |-> stripped_transcription,
                    timestamp |-> task.timestamp,
                    task |-> task.id ])
        ELSE None

\* `while self.is_running`: the worker goes on to wait for a task, or returns
WorkerCheck(w) ==
    /\ workers[w].pc = "check"
    /\ workers' = [workers EXCEPT ![w].pc = IF is_running THEN "get" ELSE "exited"]
    /\ UNCHANGED <<is_running, transcription_queue, result_queue, historyVars>>

\* transcription_queue.get(timeout=0.1) with the queue empty: queue.Empty, continue
WorkerTimeout(w) ==
    /\ workers[w].pc = "get"
    /\ transcription_queue = <<>>
    /\ workers' = [workers EXCEPT ![w].pc = "check"]
    /\ UNCHANGED <<is_running, transcription_queue, result_queue, historyVars>>

\* A worker that leaves its loop on a too-short task instead of continuing.
WorkerGet_break_on_short(w) ==
    /\ workers[w].pc = "get"
    /\ transcription_queue # <<>>
    /\ LET task == Head(transcription_queue)
       IN  /\ transcription_queue' = Tail(transcription_queue)
           /\ IF ByteLen(task.audio_data) < MinTaskBytes
              THEN /\ workers' = [workers EXCEPT ![w].pc = "exited"]
                   /\ ended' = (task.id :> [how |-> "skipped", text |-> <<>>]) @@ ended
              ELSE /\ workers' = [workers EXCEPT ![w] = [pc |-> "transcribe", task |-> Some(task)]]
                   /\ UNCHANGED ended
    /\ UNCHANGED <<is_running, result_queue, handed, submitted, produced>>

\* A worker without the size test: every task it takes goes to the engine.
WorkerGet_no_size_test(w) ==
    /\ workers[w].pc = "get"
    /\ transcription_queue # <<>>
    /\ LET task == Head(transcription_queue)
       IN  /\ transcription_queue' = Tail(transcription_queue)
           /\ workers' = [workers EXCEPT ![w] = [pc |-> "transcribe", task |-> Some(task)]]
           /\ UNCHANGED ended
    /\ UNCHANGED <<is_running, result_queue, handed, submitted, produced>>

\* transcription_queue.get returns a task; one shorter than half a chunk is skipped
WorkerGet(w) ==
    /\ workers[w].pc = "get"
    /\ transcription_queue # <<>>
    /\ LET task == Head(transcription_queue)
       IN  /\ transcription_queue' = Tail(transcription_queue)
           /\ IF ByteLen(task.audio_data) < MinTaskBytes
              THEN /\ workers' = [workers EXCEPT ![w].pc = "check"]
                   /\ ended' = (task.id :> [how |-> "skipped", text |-> <<>>]) @@ ended
              ELSE /\ workers' = [workers EXCEPT ![w] = [pc |-> "transcribe", task |-> Some(task)]]
                   /\ UNCHANGED ended
    /\ UNCHANGED <<is_running, result_queue, handed, submitted, produced>>

\* A worker without the except clause: an exception ends the thread.
WorkerTranscribe_uncaught(w, outcome) ==
    /\ workers[w].pc = "transcribe"
    /\ LET task == workers[w].task[1]
           res == IF outcome.raises THEN None ELSE WorkerResult(task, outcome.text)
       IN  /\ result_queue' = IF res = None THEN result_queue ELSE Append(result_queue, res[1])
           /\ produced' = IF res = None THEN produced ELSE Append(produced, res[1])
           /\ ended' = (task.id :> [how |-> IF outcome.raises THEN "raised" ELSE "returned",
                                      text |-> outcome.text]) @@ ended
    /\ workers' = [workers EXCEPT ![w] = [pc |-> IF outcome.raises THEN "exited" ELSE "check",
                                          task |-> None]]
    /\ UNCHANGED <<is_running, transcription_queue, handed, submitted>>

\* the rest of the loop body for the task taken: temp file, WAV, transcribe,
\* filter, result_queue.put, and the except clauses
WorkerTranscribe(w, outcome) ==
    /\ workers[w].pc = "transcribe"
    /\ LET task == workers[w].task[1]
           res == IF outcome.raises THEN None ELSE WorkerResult(task, outcome.text)
       IN  /\ result_queue' = IF res = None THEN result_queue ELSE Append(result_queue, res[1])
           /\ produced' = IF res = None THEN produced ELSE Append(produced, res[1])
           /\ ended' = (task.id :> [how |-> IF outcome.raises THEN "raised" ELSE "returned",
                                       text |-> outcome.text]) @@ ended
    /\ workers' = [workers EXCEPT ![w] = [pc |-> "check", task |-> None]]
    /\ UNCHANGED <<is_running, transcription_queue, handed, submitted>>

\* get_result(): Optional[result], and the queue after it
get_result ==
    IF result_queue = <<>>
    THEN [ ret |-> None, queue |-> result_queue ]
    ELSE [ ret |-> Some(Head(result_queue)), queue |-> Tail(result_queue) ]

EngineInit ==
    /\ is_running = FALSE
    /\ transcription_queue = <<>>
    /\ result_queue = <<>>
    /\ workers = <<>>
    /\ handed = 0
    /\ submitted = <<>>
    /\ ended = <<>>
    /\ produced = <<>>

\* ------------------------------------------------------------------------
\* BufferSpec: every sequence of calls on one StreamingAudioBuffer
\* ------------------------------------------------------------------------
\* a thread outside any call on the buffer; inside one, pc names the statement
\* it executes next and the other fields are the call's locals
IdleCall == [pc |-> "idle", chunk_start_index |-> 0, chunk_end_index |-> 0, bytes |-> <<>>]

BufInit ==
    /\ buffer = NewBuffer(1, Name(1))
    /\ last_call = [op |-> "__init__", pre |-> NewBuffer(1, Name(1)), ret |-> None,
                    has_speech |-> FALSE]
    /\ race = [transport |-> IdleCall, loop |-> IdleCall, popped |-> FALSE]

ClockInit ==
    /\ now = 0
    /\ fed = [p \in Guilds \X Users |-> 0]


BufAddAudio(rawBytes, classifier) ==
    LET frame == ResampledFrame(1, 1, rawBytes)
        r == add_audio(buffer, frame, apply_vad(ByteLen(frame), classifier), now)
    IN  /\ fed[<<1, 1>>] + Len(frame) <= MaxBufBlocks
        /\ buffer' = r.buf
        /\ last_call' = [op |-> "add_audio", pre |-> buffer, ret |-> r.ret,
                         has_speech |-> apply_vad(ByteLen(frame), classifier)]
        /\ fed' = [fed EXCEPT ![<<1, 1>>] = @ + Len(frame)]
        /\ UNCHANGED <<now, race, nonBufVars>>

BufGetAudioChunk ==
    LET r == get_audio_chunk(buffer)
    IN  /\ buffer' = r.buf
        /\ last_call' = [op |-> "get_audio_chunk", pre |-> buffer, ret |-> r.ret,
                      has_speech |-> FALSE]
        /\ UNCHANGED <<clockVars, race, nonBufVars>>

BufGetRemainingAudio ==
    LET r == get_remaining_audio(buffer)
    IN  /\ buffer' = r.buf
        /\ last_call' = [op |-> "get_remaining_audio", pre |-> buffer, ret |-> r.ret,
                      has_speech |-> FALSE]
        /\ UNCHANGED <<clockVars, race, nonBufVars>>

BufTick == Tick /\ UNCHANGED <<bufVars, nonBufVars>>

BufNext ==
    \/ \E rawBytes \in RawFrameLens, c \in VadOutcomes : BufAddAudio(rawBytes, c)
    \/ BufGetAudioChunk
    \/ BufGetRemainingAudio
    \/ BufTick

\* ------------------------------------------------------------------------
\* RaceSpec: the two threads that call one StreamingAudioBuffer, statement by
\* statement.  "transport" is the voice-receive thread in process_audio
\* (add_audio, and get_remaining_audio at an utterance end); "loop" is the
\* event loop (get_audio_chunk of the periodic loop, get_remaining_audio of the
\* departure handler and of stop_processing, which take the buffer out of the
\* map).  Nothing in the source serialises them.
\* ------------------------------------------------------------------------
\* process_audio: buffer.add_audio(audio_data); on an utterance end the thread
\* goes on to get_remaining_audio
RaceAddAudio(rawBytes, classifier) ==
    LET frame == ResampledFrame(1, 1, rawBytes)
        r == add_audio(buffer, frame, apply_vad(ByteLen(frame), classifier), now)
    IN  /\ race.transport.pc = "idle"
        /\ ~race.popped
        /\ fed[<<1, 1>>] + Len(frame) <= MaxBufBlocks
        /\ buffer' = r.buf
        /\ fed' = [fed EXCEPT ![<<1, 1>>] = @ + Len(frame)]
        /\ race' = [race EXCEPT !.transport.pc = IF r.ret THEN "copy" ELSE "idle"]
        /\ UNCHANGED <<now, last_call, nonBufVars>>

\* the departure handler or stop_processing: the buffer leaves the map and
\* get_remaining_audio is called on it
RacePop ==
    /\ race.loop.pc = "idle"
    /\ ~race.popped
    /\ race' = [race EXCEPT !.loop.pc = "copy", !.popped = TRUE]
    /\ UNCHANGED <<clockVars, buffer, last_call, nonBufVars>>

\* get_remaining_audio: `if len(...) > 0: remaining_chunk = bytes(...)`
RaceFlushCopy(th) ==
    /\ race[th].pc = "copy"
    /\ IF Len(buffer.accumulated_audio) > 0
       THEN /\ race' = [race EXCEPT ![th].pc = "clear", ![th].bytes = buffer.accumulated_audio]
            /\ UNCHANGED last_call
       ELSE /\ race' = [race EXCEPT ![th] = IdleCall]
            /\ last_call' = [op |-> "get_remaining_audio", pre |-> buffer, ret |-> None,
                      has_speech |-> FALSE]
    /\ UNCHANGED <<clockVars, buffer, nonBufVars>>

\* get_remaining_audio: self.accumulated_audio.clear()
RaceFlushClear(th) ==
    /\ race[th].pc = "clear"
    /\ buffer' = [buffer EXCEPT !.accumulated_audio = <<>>]
    /\ race' = [race EXCEPT ![th].pc = "reset"]
    /\ UNCHANGED <<clockVars, last_call, nonBufVars>>

\* get_remaining_audio: self.last_processed_buffer_length = 0; return
RaceFlushReset(th) ==
    /\ race[th].pc = "reset"
    /\ buffer' = [buffer EXCEPT !.last_processed_buffer_length = 0]
    /\ last_call' = [op |-> "get_remaining_audio", pre |-> buffer, ret |-> Some(race[th].bytes),
                      has_speech |-> FALSE]
    /\ race' = [race EXCEPT ![th] = IdleCall]
    /\ UNCHANGED <<clockVars, nonBufVars>>

\* get_audio_chunk: new_data_length and its comparison with REALTIME_CHUNK_BYTES
RaceChunkCheck ==
    /\ race.loop.pc = "idle"
    /\ ~race.popped
    /\ IF ByteLen(buffer.accumulated_audio) - buffer.last_processed_buffer_length
            >= REALTIME_CHUNK_BYTES
       THEN /\ race' = [race EXCEPT !.loop.pc = "index"]
            /\ UNCHANGED last_call
       ELSE /\ last_call' = [op |-> "get_audio_chunk", pre |-> buffer, ret |-> None,
                      has_speech |-> FALSE]
            /\ UNCHANGED race
    /\ UNCHANGED <<clockVars, buffer, nonBufVars>>

\* get_audio_chunk: chunk_start_index and chunk_end_index
RaceChunkIndex ==
    /\ race.loop.pc = "index"
    /\ LET start0 == buffer.last_processed_buffer_length - OverlapBytes
           start == IF start0 < 0 THEN 0 ELSE start0
       IN  race' = [race EXCEPT !.loop.pc = "slice",
                                !.loop.chunk_start_index = start,
                                !.loop.chunk_end_index = start + REALTIME_CHUNK_BYTES]
    /\ UNCHANGED <<clockVars, buffer, last_call, nonBufVars>>

\* get_audio_chunk: chunk = bytes(self.accumulated_audio[start:end])
RaceChunkSlice ==
    /\ race.loop.pc = "slice"
    /\ race' = [race EXCEPT !.loop.pc = "advance",
                            !.loop.bytes = Slice(buffer.accumulated_audio,
                                                 race.loop.chunk_start_index,
                                                 race.loop.chunk_end_index)]
    /\ UNCHANGED <<clockVars, buffer, last_call, nonBufVars>>

\* get_audio_chunk: self.last_processed_buffer_length = chunk_end_index; return chunk
RaceChunkAdvance ==
    /\ race.loop.pc = "advance"
    /\ buffer' = [buffer EXCEPT !.last_processed_buffer_length = race.loop.chunk_end_index]
    /\ last_call' = [op |-> "get_audio_chunk", pre |-> buffer, ret |-> Some(race.loop.bytes),
                      has_speech |-> FALSE]
    /\ race' = [race EXCEPT !.loop = IdleCall]
    /\ UNCHANGED <<clockVars, nonBufVars>>

RaceNext ==
    \/ \E c \in {"speech", "silence"} : RaceAddAudio(MaxFrameBlocks * RawBlockBytes, c)
    \/ RacePop
    \/ \E th \in {"transport", "loop"} : RaceFlushCopy(th)
    \/ \E th \in {"transport", "loop"} : RaceFlushClear(th)
    \/ \E th \in {"transport", "loop"} : RaceFlushReset(th)
    \/ RaceChunkCheck
    \/ RaceChunkIndex
    \/ RaceChunkSlice
    \/ RaceChunkAdvance
    \/ BufTick

\* ------------------------------------------------------------------------
\* EngineSpec: the engine on its own, fed by submit_audio
\* ------------------------------------------------------------------------
\* the audio of a submission: k blocks of speaker u of guild g
TaskAudio(g, u, k) == [i \in 1..k |-> <<g, u, i>>]

\* the speakers that submit, and the sizes submitted: just under and exactly
\* the worker's minimum
EngSpeakers == { <<1, 1>>, <<2, 2>> }
EngTaskBlocks == { (MinTaskBytes \div BlockBytes) - 1, MinTaskBytes \div BlockBytes }

EngStart ==
    /\ is_running' = EngineStarted.is_running
    /\ workers' = EngineStarted.workers
    /\ UNCHANGED <<transcription_queue, result_queue, historyVars, nonEngineVars>>

\* stop(): is_running = False, then join(timeout=5.0) on the worker thread,
\* which returns whether or not the worker has left its loop by then
EngStop ==
    /\ is_running' = FALSE
    /\ UNCHANGED <<transcription_queue, result_queue, workers, historyVars, nonEngineVars>>

EngSubmitAudio(g, u, k) ==
    LET es == submit_audio(EngineState, TaskAudio(g, u, k), u, Name(u), g)
    IN  /\ handed < MaxTasks
        /\ transcription_queue' = es.queue
        /\ submitted' = es.submitted
        /\ handed' = es.handed
        /\ UNCHANGED <<is_running, result_queue, workers, ended, produced, nonEngineVars>>

EngWorkerCheck(w) == WorkerCheck(w) /\ UNCHANGED nonEngineVars
EngWorkerTimeout(w) == WorkerTimeout(w) /\ UNCHANGED nonEngineVars
EngWorkerGet(w) == WorkerGet(w) /\ UNCHANGED nonEngineVars
EngWorkerTranscribe(w, outcome) == WorkerTranscribe(w, outcome) /\ UNCHANGED nonEngineVars

EngWorker(w) ==
    \/ EngWorkerCheck(w)
    \/ EngWorkerTimeout(w)
    \/ EngWorkerGet(w)
    \/ \E outcome \in EngineOutcomes : EngWorkerTranscribe(w, outcome)

EngNext ==
    \/ EngStart
    \/ \E p \in EngSpeakers, k \in EngTaskBlocks : EngSubmitAudio(p[1], p[2], k)
    \/ \E w \in DOMAIN workers : EngWorkerCheck(w)
    \/ \E w \in DOMAIN workers : EngWorkerTimeout(w)
    \/ \E w \in DOMAIN workers : EngWorkerGet(w)
    \/ \E w \in DOMAIN workers, outcome \in EngineOutcomes : EngWorkerTranscribe(w, outcome)

\* ------------------------------------------------------------------------
\* RealtimeVoiceProcessor
\* ------------------------------------------------------------------------
\* dict operations
Put(d, k, v) == [x \in (DOMAIN d) \cup {k} |-> IF x = k THEN v ELSE d[x]]
Del(d, k) == [x \in (DOMAIN d) \ {k} |-> d[x]]

\* the position of user u's buffer among a guild's buffers, 0 if it has none
FindBuf(bufs, u) ==
    IF \E i \in DOMAIN bufs : bufs[i].user_id = u
    THEN CHOOSE i \in DOMAIN bufs : bufs[i].user_id = u
    ELSE 0

RemoveAt(seq, i) == SubSeq(seq, 1, i - 1) \o SubSeq(seq, i + 1, Len(seq))

IdleTransport == [pc |-> "idle", user |-> 0, raw |-> 0, classifier |-> "silence", buf |-> None]
IdleCommand == [pc |-> "idle", channel |-> <<0, 0>>]

ProcInit ==
    /\ audio_buffers = <<>>
    /\ text_channels = <<>>
    /\ result_polling_tasks = <<>>
    /\ periodic_chunk_processing_tasks = <<>>
    /\ voice_processor = "unset"
    /\ connections = <<>>
    /\ command = [g \in Guilds |-> IdleCommand]
    /\ transport = [g \in Guilds |-> IdleTransport]
    /\ ntasks = 0
    /\ sent = <<>>
    /\ discarded = <<>>

Init == ClockInit /\ BufInit /\ EngineInit /\ ProcInit

\* the buffer the transport thread of guild g holds in its local `buffer`
TransportBuffer(g) ==
    IF transport[g].buf # None
    THEN transport[g].buf[1]
    ELSE audio_buffers[g][FindBuf(audio_buffers[g], transport[g].user)]

\* The transport thread of guild g is between two statements of process_audio
\* and its local `buffer` is the dict's buffer of user u.
HoldsDictBuffer(g, u) ==
    /\ transport[g].pc \in {"add", "flush"}
    /\ transport[g].buf = None
    /\ transport[g].user = u

\* stop_processing's loop over the guild's buffers: get_remaining_audio on
\* each, submit_audio of what it returns
RECURSIVE FlushAll(_, _, _)
FlushAll(bufs, es, g) ==
    IF bufs = <<>> THEN es
    ELSE LET b == Head(bufs)
             r == get_remaining_audio(b)
             es1 == IF Truthy(r.ret)
                    THEN submit_audio(es, r.ret[1], b.user_id, b.username, g)
                    ELSE es
         IN  FlushAll(Tail(bufs), es1, g)

\* the periodic loop's pass over the guild's buffers: get_audio_chunk on each,
\* submit_audio of the chunk
RECURSIVE ChunkAll(_, _, _)
ChunkAll(bufs, es, g) ==
    IF bufs = <<>> THEN [bufs |-> <<>>, es |-> es]
    ELSE LET b == Head(bufs)
             r == get_audio_chunk(b)
             es1 == IF Truthy(r.ret)
                    THEN submit_audio(es, r.ret[1], b.user_id, b.username, g)
                    ELSE es
             rest == ChunkAll(Tail(bufs), es1, g)
         IN  [bufs |-> <<r.buf>> \o rest.bufs, es |-> rest.es]

\* start_processing(guild_id, text_channel)
StartProcessing(g, ch) ==
    LET newPoll == g \notin DOMAIN result_polling_tasks \/ result_polling_tasks[g].done
        newPeriodic == g \notin DOMAIN periodic_chunk_processing_tasks
                          \/ periodic_chunk_processing_tasks[g].done
        nPoll == IF newPoll THEN 1 ELSE 0
        nPeriodic == IF newPeriodic THEN 1 ELSE 0
    IN  /\ text_channels' = Put(text_channels, g, ch)
        /\ audio_buffers' = IF g \in DOMAIN audio_buffers THEN audio_buffers
                            ELSE Put(audio_buffers, g, <<>>)
        /\ is_running' = EngineStarted.is_running
        /\ workers' = EngineStarted.workers
        /\ result_polling_tasks' =
              IF newPoll
              THEN Put(result_polling_tasks, g, [id |-> ntasks + 1, done |-> FALSE])
              ELSE result_polling_tasks
        /\ periodic_chunk_processing_tasks' =
              IF newPeriodic
              THEN Put(periodic_chunk_processing_tasks, g,
                       [id |-> ntasks + nPoll + 1, done |-> FALSE])
              ELSE periodic_chunk_processing_tasks
        /\ ntasks' = ntasks + nPoll + nPeriodic

\* stop_processing(guild_id).  A transport thread that is inside process_audio
\* keeps the buffer object it looked up, which the loop here has just flushed.
StopProcessing(g) ==
    LET bufs == IF g \in DOMAIN audio_buffers THEN audio_buffers[g] ELSE <<>>
        es == FlushAll(bufs, EngineState, g)
    IN  /\ result_polling_tasks' = Del(result_polling_tasks, g)
        /\ periodic_chunk_processing_tasks' = Del(periodic_chunk_processing_tasks, g)
        /\ transcription_queue' = es.queue
        /\ submitted' = es.submitted
        /\ handed' = es.handed
        /\ audio_buffers' = Del(audio_buffers, g)
        /\ text_channels' = Del(text_channels, g)
        /\ transport' =
              IF HoldsDictBuffer(g, transport[g].user)
              THEN [transport EXCEPT ![g].buf = Some(get_remaining_audio(TransportBuffer(g)).buf)]
              ELSE transport

\* A process_audio that makes the guild's buffer map when it is missing.
TransportWrite_makes_map(g, u, rawBytes, classifier) ==
    /\ transport[g].pc = "idle"
    /\ g \in DOMAIN connections
    /\ connections[g].listening
    /\ LET bufs == IF g \in DOMAIN audio_buffers THEN audio_buffers[g] ELSE <<>>
       IN  audio_buffers' =
              IF FindBuf(bufs, u) = 0
              THEN Put(audio_buffers, g, Append(bufs, NewBuffer(u, Name(u))))
              ELSE audio_buffers
    /\ transport' = [transport EXCEPT ![g] =
          [pc |-> "add", user |-> u, raw |-> rawBytes,
           classifier |-> classifier, buf |-> None]]
    /\ UNCHANGED <<clockVars, bufVars, engineVars, historyVars, text_channels,
                   result_polling_tasks, periodic_chunk_processing_tasks,
                   connections, command, dispatchVars, voice_processor>>

\* OptimizedAudioSink.write -> process_audio, up to `buffer = ...`: a frame of
\* user u arrives on the listening voice client of guild g
TransportWrite(g, u, rawBytes, classifier) ==
    /\ transport[g].pc = "idle"
    /\ g \in DOMAIN connections
    /\ connections[g].listening
    /\ IF g \notin DOMAIN audio_buffers
       THEN UNCHANGED <<audio_buffers, transport>>
       ELSE /\ audio_buffers' =
                  IF FindBuf(audio_buffers[g], u) = 0
                  THEN [audio_buffers EXCEPT ![g] = Append(@, NewBuffer(u, Name(u)))]
                  ELSE audio_buffers
            /\ transport' = [transport EXCEPT ![g] =
                  [pc |-> "add", user |-> u, raw |-> rawBytes,
                   classifier |-> classifier, buf |-> None]]
    /\ UNCHANGED <<clockVars, bufVars, engineVars, historyVars, text_channels,
                   result_polling_tasks, periodic_chunk_processing_tasks,
                   connections, command, dispatchVars, voice_processor>>

\* process_audio: speech_ended = buffer.add_audio(audio_data)
TransportAdd(g) ==
    /\ transport[g].pc = "add"
    /\ LET t == transport[g]
           frame == ResampledFrame(g, t.user, t.raw)
           r == add_audio(TransportBuffer(g), frame,
                          apply_vad(ByteLen(frame), t.classifier), now)
           next == IF r.ret THEN "flush" ELSE "idle"
       IN  /\ fed' = [fed EXCEPT ![<<g, t.user>>] = @ + Len(frame)]
           /\ IF t.buf = None
              THEN /\ audio_buffers' = [audio_buffers EXCEPT
                                          ![g][FindBuf(audio_buffers[g], t.user)] = r.buf]
                   /\ transport' = [transport EXCEPT ![g] =
                          IF r.ret THEN [t EXCEPT !.pc = "flush"] ELSE IdleTransport]
              ELSE /\ UNCHANGED audio_buffers
                   /\ transport' = [transport EXCEPT ![g] =
                          IF r.ret THEN [t EXCEPT !.pc = "flush", !.buf = Some(r.buf)]
                          ELSE [IdleTransport EXCEPT !.buf = None]]
    /\ UNCHANGED <<now, bufVars, engineVars, historyVars, text_channels,
                   result_polling_tasks, periodic_chunk_processing_tasks,
                   connections, command, dispatchVars, voice_processor>>

\* A process_audio that transcribes the utterance itself instead of queueing it.
TransportFlush_inline(g) ==
    /\ transport[g].pc = "flush"
    /\ LET t == transport[g]
           r == get_remaining_audio(TransportBuffer(g))
           id == Len(submitted) + 1
           task == [ audio_data |-> (IF r.ret = None THEN <<>> ELSE r.ret[1]), user_id |-> t.user, username |-> Name(t.user),
                     guild_id |-> g, timestamp |-> now, id |-> id, channel |-> None ]
           said == r.ret # None /\ Len(r.ret[1]) > 0
       IN  /\ submitted' = IF said THEN Append(submitted, task) ELSE submitted
           /\ handed' = IF said THEN handed + 1 ELSE handed
           /\ ended' = IF said THEN (id :> [how |-> "returned", text |-> <<"hello">>]) @@ ended
                       ELSE ended
           /\ produced' = IF said THEN Append(produced, WorkerResult(task, <<"hello">>)[1])
                          ELSE produced
           /\ result_queue' = IF said THEN Append(result_queue, WorkerResult(task, <<"hello">>)[1])
                              ELSE result_queue
           /\ audio_buffers' =
                 IF t.buf = None
                 THEN [audio_buffers EXCEPT ![g][FindBuf(audio_buffers[g], t.user)] = r.buf]
                 ELSE audio_buffers
    /\ transport' = [transport EXCEPT ![g] = IdleTransport]
    /\ UNCHANGED <<clockVars, bufVars, is_running, transcription_queue, workers,
                   text_channels, result_polling_tasks, periodic_chunk_processing_tasks,
                   connections, command, dispatchVars, voice_processor>>

\* process_audio: `if speech_ended:` get_remaining_audio and submit_audio
TransportFlush(g) ==
    /\ transport[g].pc = "flush"
    /\ LET t == transport[g]
           r == get_remaining_audio(TransportBuffer(g))
           es == IF r.ret # None /\ Len(r.ret[1]) > 0
                 THEN submit_audio(EngineState, r.ret[1], t.user, Name(t.user), g)
                 ELSE EngineState
       IN  /\ transcription_queue' = es.queue
           /\ submitted' = es.submitted
           /\ handed' = es.handed
           /\ audio_buffers' =
                 IF t.buf = None
                 THEN [audio_buffers EXCEPT ![g][FindBuf(audio_buffers[g], t.user)] = r.buf]
                 ELSE audio_buffers
    /\ transport' = [transport EXCEPT ![g] = IdleTransport]
    /\ UNCHANGED <<clockVars, bufVars, is_running, result_queue, workers, ended, produced,
                   text_channels, result_polling_tasks, periodic_chunk_processing_tasks,
                   connections, command, dispatchVars, voice_processor>>

\* one pass of _periodic_chunk_processing_loop after its sleep
PeriodicTick(g) ==
    /\ g \in DOMAIN periodic_chunk_processing_tasks
    /\ ~periodic_chunk_processing_tasks[g].done
    /\ IF g \notin DOMAIN audio_buffers
       THEN /\ periodic_chunk_processing_tasks' =
                  [periodic_chunk_processing_tasks EXCEPT ![g].done = TRUE]
            /\ UNCHANGED <<audio_buffers, transcription_queue, handed, submitted>>
       ELSE LET r == ChunkAll(audio_buffers[g], EngineState, g)
            IN  /\ audio_buffers' = [audio_buffers EXCEPT ![g] = r.bufs]
                /\ transcription_queue' = r.es.queue
                /\ submitted' = r.es.submitted
                /\ handed' = r.es.handed
                /\ UNCHANGED periodic_chunk_processing_tasks
    /\ UNCHANGED <<clockVars, bufVars, is_running, result_queue, workers, ended, produced,
                   text_channels, result_polling_tasks, botVars, dispatchVars>>

\* one pass of _result_polling_loop that finds a result
PollStep(g) ==
    /\ g \in DOMAIN result_polling_tasks
    /\ ~result_polling_tasks[g].done
    /\ get_result.ret # None
    /\ LET result == get_result.ret[1]
       IN  /\ result_queue' = get_result.queue
           /\ IF result.guild_id = g /\ g \in DOMAIN text_channels
              THEN /\ sent' = Append(sent, [channel |-> text_channels[g], result |-> result])
                   /\ UNCHANGED discarded
              ELSE /\ discarded' = Append(discarded, [by |-> g, result |-> result])
                   /\ UNCHANGED sent
    /\ UNCHANGED <<clockVars, bufVars, is_running, transcription_queue, workers,
                   historyVars, procVars, botVars, ntasks>>

\* ------------------------------------------------------------------------
\* Commands and events
\* ------------------------------------------------------------------------
\* !join up to the connect: an existing voice client that is still connected is
\* disconnected and its session stopped. stop_listening and the awaited
\* disconnect come before stop_processing here, so the write of the transport
\* thread that was in progress has returned by then
JoinBegin(g, ch) ==
    /\ command[g].pc = "idle"
    /\ ntasks < 2 * MaxJoins
    /\ IF g \in DOMAIN connections /\ connections[g].connected
       THEN /\ transport[g].pc = "idle"
            /\ IF voice_processor = "ready"
               THEN StopProcessing(g)
               ELSE UNCHANGED <<procVars, transcription_queue, handed, submitted, transport>>
            /\ connections' = Del(connections, g)
       ELSE UNCHANGED <<procVars, transcription_queue, handed, submitted, transport, connections>>
    /\ command' = [command EXCEPT ![g] = [pc |-> "join_connect", channel |-> ch]]
    /\ UNCHANGED <<clockVars, bufVars, is_running, result_queue, workers, ended, produced,
                   dispatchVars, voice_processor>>

\* !join from the connect on: connect, then, unless voice_processor is None,
\* listen and start_processing; a connect that raises is reported and nothing
\* else happens
JoinConnect(g, connected) ==
    /\ command[g].pc = "join_connect"
    /\ IF connected
       THEN /\ connections' = Put(connections, g, [connected |-> TRUE,
                                                  listening |-> voice_processor = "ready"])
            /\ IF voice_processor = "ready"
               THEN StartProcessing(g, command[g].channel)
               ELSE UNCHANGED <<procVars, is_running, workers, ntasks>>
       ELSE UNCHANGED <<connections, procVars, is_running, workers, ntasks>>
    /\ command' = [command EXCEPT ![g] = IdleCommand]
    /\ UNCHANGED <<clockVars, bufVars, transcription_queue, result_queue, historyVars,
                   transport, sent, discarded, voice_processor>>

\* !leave up to stop_listening
LeaveStop(g) ==
    /\ command[g].pc = "idle"
    /\ g \in DOMAIN connections
    /\ IF voice_processor = "ready"
       THEN StopProcessing(g)
       ELSE UNCHANGED <<procVars, transcription_queue, handed, submitted, transport>>
    /\ command' = [command EXCEPT ![g] = [pc |-> "leave_disconnect", channel |-> <<0, 0>>]]
    /\ UNCHANGED <<clockVars, bufVars, is_running, result_queue, workers, ended, produced,
                   connections, dispatchVars, voice_processor>>

\* !leave: stop_listening, disconnect, del connections[guild]
LeaveDisconnect(g) ==
    /\ command[g].pc = "leave_disconnect"
    /\ connections' = Del(connections, g)
    /\ command' = [command EXCEPT ![g] = IdleCommand]
    /\ UNCHANGED <<clockVars, bufVars, engineVars, historyVars, procVars, transport,
                   dispatchVars, voice_processor>>

\* the voice connection of guild g is lost from outside (the bot is kicked or
\* moved, the gateway drops): the client no longer reports is_connected
VoiceDropped(g) ==
    /\ g \in DOMAIN connections
    /\ connections[g].connected
    /\ connections' = [connections EXCEPT ![g] = [connected |-> FALSE, listening |-> FALSE]]
    /\ UNCHANGED <<clockVars, bufVars, engineVars, historyVars, procVars, command,
                   transport, dispatchVars, voice_processor>>

\* on_voice_state_update for member u of guild g with before.channel set and
\* different from after.channel, in the case where it acts
Departure(g, u) ==
    /\ voice_processor = "ready"
    /\ g \in DOMAIN connections
    /\ connections[g].connected
    /\ g \in DOMAIN audio_buffers
    /\ FindBuf(audio_buffers[g], u) # 0
    /\ g \in DOMAIN text_channels
    /\ LET i == FindBuf(audio_buffers[g], u)
           r == get_remaining_audio(audio_buffers[g][i])
           es == IF Truthy(r.ret)
                 THEN submit_audio(EngineState, r.ret[1], u, Name(u), g)
                 ELSE EngineState
       IN  /\ audio_buffers' = [audio_buffers EXCEPT ![g] = RemoveAt(@, i)]
           /\ transcription_queue' = es.queue
           /\ submitted' = es.submitted
           /\ handed' = es.handed
           /\ transport' = IF HoldsDictBuffer(g, u)
                           THEN [transport EXCEPT ![g].buf = Some(r.buf)]
                           ELSE transport
    /\ UNCHANGED <<clockVars, bufVars, is_running, result_queue, workers, ended, produced,
                   text_channels, result_polling_tasks, periodic_chunk_processing_tasks,
                   connections, command, dispatchVars, voice_processor>>

\* on_ready: the Whisper model loads and the engine and the processor are
\* built, or the load raises and both globals stay None
OnReady(loaded) ==
    /\ voice_processor = "unset"
    /\ voice_processor' = IF loaded THEN "ready" ELSE "none"
    /\ UNCHANGED <<clockVars, bufVars, engineVars, historyVars, procVars, connections,
                   command, transport, dispatchVars>>

\* a pause longer than the silence threshold, in the session specifications
LongPause ==
    /\ now = 0
    /\ now' = now + MaxNowTicks * TickMs
    /\ UNCHANGED <<fed, bufVars, nonBufVars>>

\* the texts the engine returns in the session specifications
SessionOutcomes ==
    { [raises |-> FALSE, text |-> <<>>], [raises |-> FALSE, text |-> <<" ", "ok", " ">>] }

\* the frames the transport delivers in the session specifications
SessionFrameLens == { MaxFrameBlocks * RawBlockBytes }
SessionVad == { "speech", "silence" }

\* a frame of the session specifications: at most MaxFed blocks per speaker
SessionWrite(g, u, rawBytes, classifier) ==
    /\ fed[<<g, u>>] + (ResampledBytes(rawBytes) \div BlockBytes) <= MaxFed
    /\ TransportWrite(g, u, rawBytes, classifier)

\* the text channel a !join is typed in
ChannelsOf(g) == { <<g, 1>> }

\* ------------------------------------------------------------------------
\* Spec: the life cycle of one guild's session, with one speaker
\* ------------------------------------------------------------------------
WorkerNext ==
    \/ \E w \in DOMAIN workers : EngWorkerCheck(w)
    \/ \E w \in DOMAIN workers : EngWorkerTimeout(w)
    \/ \E w \in DOMAIN workers : EngWorkerGet(w)
    \/ \E w \in DOMAIN workers, outcome \in SessionOutcomes : EngWorkerTranscribe(w, outcome)

Next ==
    \/ \E loaded \in BOOLEAN : OnReady(loaded)
    \/ \E rawBytes \in SessionFrameLens, c \in SessionVad : SessionWrite(1, 1, rawBytes, c)
    \/ TransportAdd(1)
    \/ TransportFlush(1)
    \/ PeriodicTick(1)
    \/ PollStep(1)
    \/ \E ch \in ChannelsOf(1) : JoinBegin(1, ch)
    \/ \E connected \in BOOLEAN : JoinConnect(1, connected)
    \/ LeaveStop(1)
    \/ LeaveDisconnect(1)
    \/ VoiceDropped(1)
    \/ Departure(1, 1)
    \/ LongPause
    \/ WorkerNext

\* ------------------------------------------------------------------------
\* RejoinSpec: sessions of one guild one after the other, each !join typed in
\* either of two text channels
\* ------------------------------------------------------------------------
RejoinChannels == { <<1, 1>>, <<1, 2>> }

RejoinNext ==
    \/ OnReady(TRUE)
    \/ \E rawBytes \in SessionFrameLens, c \in SessionVad : SessionWrite(1, 1, rawBytes, c)
    \/ TransportAdd(1)
    \/ TransportFlush(1)
    \/ PeriodicTick(1)
    \/ PollStep(1)
    \/ \E ch \in RejoinChannels : JoinBegin(1, ch)
    \/ JoinConnect(1, TRUE)
    \/ LeaveStop(1)
    \/ LeaveDisconnect(1)
    \/ LongPause
    \/ WorkerNext

\* ------------------------------------------------------------------------
\* SpeakersSpec: one session of one guild, with two speakers
\* ------------------------------------------------------------------------
FirstJoin(g) == g \notin DOMAIN connections /\ \E ch \in ChannelsOf(g) : JoinBegin(g, ch)

SpeakersNext ==
    \/ OnReady(TRUE)
    \/ \E u \in Users, rawBytes \in SessionFrameLens, c \in SessionVad :
          SessionWrite(1, u, rawBytes, c)
    \/ TransportAdd(1)
    \/ TransportFlush(1)
    \/ PeriodicTick(1)
    \/ PollStep(1)
    \/ FirstJoin(1)
    \/ JoinConnect(1, TRUE)
    \/ \E u \in Users : Departure(1, u)
    \/ LongPause
    \/ WorkerNext

\* ------------------------------------------------------------------------
\* GuildsSpec: one session in each of two guilds, one speaker each
\* ------------------------------------------------------------------------
GuildsNext ==
    \/ OnReady(TRUE)
    \/ \E g \in Guilds, rawBytes \in SessionFrameLens, c \in SessionVad :
          SessionWrite(g, 1, rawBytes, c)
    \/ \E g \in Guilds : TransportAdd(g)
    \/ \E g \in Guilds : TransportFlush(g)
    \/ \E g \in Guilds : PeriodicTick(g)
    \/ \E g \in Guilds : PollStep(g)
    \/ \E g \in Guilds : FirstJoin(g)
    \/ \E g \in Guilds : JoinConnect(g, TRUE)
    \/ LongPause
    \/ WorkerNext

\* ------------------------------------------------------------------------
\* ActiveSpec: one session of one guild that is started and never stopped,
\* with its loops, the transport thread and the worker running on
\* ------------------------------------------------------------------------
ActiveNext ==
    \/ OnReady(TRUE)
    \/ FirstJoin(1)
    \/ JoinConnect(1, TRUE)
    \/ \E rawBytes \in SessionFrameLens, c \in SessionVad : SessionWrite(1, 1, rawBytes, c)
    \/ TransportAdd(1)
    \/ TransportFlush(1)
    \/ PeriodicTick(1)
    \/ PollStep(1)
    \/ LongPause
    \/ WorkerNext

\* ------------------------------------------------------------------------
\* UtteranceSpec: one speaker says one utterance of UtteranceMs of speech in
\* frames of 300 ms, pauses for longer than the silence threshold, and then
\* delivers one non-speech frame; the periodic loop and the worker run all along
\* ------------------------------------------------------------------------
UtteranceBlocks == (((UtteranceMs * WHISPER_SAMPLE_RATE) \div 1000) * 2) \div BlockBytes
UtteranceFrameLen == (MaxFrameBlocks \div 2) * RawBlockBytes

UtteranceSpeech ==
    /\ now = 0
    /\ fed[<<1, 1>>] + (MaxFrameBlocks \div 2) <= UtteranceBlocks
    /\ TransportWrite(1, 1, UtteranceFrameLen, "speech")

UtterancePause ==
    /\ fed[<<1, 1>>] = UtteranceBlocks
    /\ transport[1].pc = "idle"
    /\ LongPause

UtteranceSilence ==
    /\ now > 0
    /\ fed[<<1, 1>>] = UtteranceBlocks
    /\ TransportWrite(1, 1, UtteranceFrameLen, "silence")

UtteranceNext ==
    \/ OnReady(TRUE)
    \/ FirstJoin(1)
    \/ JoinConnect(1, TRUE)
    \/ UtteranceSpeech
    \/ UtterancePause
    \/ UtteranceSilence
    \/ TransportAdd(1)
    \/ TransportFlush(1)
    \/ PeriodicTick(1)
    \/ PollStep(1)
    \/ WorkerNext

\* ------------------------------------------------------------------------
\* RestartSpec: the engine started, stopped and started again while chunks
\* are handed to it
\* ------------------------------------------------------------------------
\* start() that finds the engine running, or creates one more worker thread;
\* chunks are handed over only once the engine has been started (the callers of
\* submit_audio exist only after start_processing)
RestartStart == (is_running \/ Len(workers) < MaxWorkers) /\ EngStart

RestartNext ==
    \/ RestartStart
    \/ EngStop
    \/ \E p \in EngSpeakers, k \in EngTaskBlocks :
          workers # <<>> /\ EngSubmitAudio(p[1], p[2], k)
    \/ WorkerNext

\* ------------------------------------------------------------------------
\* Specifications
\* ------------------------------------------------------------------------
vars == <<clockVars, bufVars, engineVars, historyVars, procVars, botVars, dispatchVars>>

Spec == Init /\ [][Next]_vars

SpeakersSpec == Init /\ [][SpeakersNext]_vars

RejoinSpec == Init /\ [][RejoinNext]_vars

\* What keeps running without anybody's doing: the call of process_audio in
\* progress, the periodic loop, the polling loop and the worker thread.  The
\* arrival of a frame and the passing of time are not forced.
ActiveFairness ==
    /\ WF_vars(TransportAdd(1))
    /\ WF_vars(TransportFlush(1))
    /\ WF_vars(PeriodicTick(1))
    /\ WF_vars(PollStep(1))
    /\ WF_vars(WorkerNext)

ActiveSpec == Init /\ [][ActiveNext]_vars /\ ActiveFairness

GuildsSpec == Init /\ [][GuildsNext]_vars

BufferSpec == Init /\ [][BufNext]_vars

RaceSpec == Init /\ [][RaceNext]_vars

RestartSpec == Init /\ [][RestartNext]_vars

UtteranceSpec == Init /\ [][UtteranceNext]_vars

\* The worker is a thread of its own: it is scheduled as long as it can step.
EngineSpec == Init /\ [][EngNext]_vars /\ \A w \in 1..MaxWorkers : WF_vars(w \in DOMAIN workers /\ EngWorker(w))

\* ------------------------------------------------------------------------
\* Claims on StreamingAudioBuffer (BufferSpec)
\* ------------------------------------------------------------------------
\* the bytes a call returned: none for None
Bytes(opt) == IF opt = None THEN <<>> ELSE opt[1]

\* C1: every chunk get_audio_chunk returns is exactly REALTIME_CHUNK_BYTES long,
\* and after every call the cursor last_processed_buffer_length is at most the
\* length of accumulated_audio.
C1_ChunkExactCursorWithin ==
    /\ buffer.last_processed_buffer_length <= ByteLen(buffer.accumulated_audio)
    /\ (last_call.op = "get_audio_chunk" /\ last_call.ret # None)
          => ByteLen(last_call.ret[1]) = REALTIME_CHUNK_BYTES

\* C1 witness: a second chunk of one utterance has been returned (the cursor
\* was already past 0, so the chunk starts in the overlap).
C1_Witness ==
    /\ last_call.op = "get_audio_chunk"
    /\ last_call.ret # None
    /\ last_call.pre.last_processed_buffer_length > 0
    /\ buffer.last_processed_buffer_length < ByteLen(buffer.accumulated_audio)

\* C2 as stated: get_remaining_audio returns exactly the bytes from the cursor
\* to the end of the accumulator (nothing that get_audio_chunk already handed
\* out), empties the accumulator and resets the cursor to 0.
C2_FlushFromCursor ==
    last_call.op = "get_remaining_audio" =>
        /\ Bytes(last_call.ret) =
              Slice(last_call.pre.accumulated_audio,
                    last_call.pre.last_processed_buffer_length,
                    ByteLen(last_call.pre.accumulated_audio))
        /\ buffer.accumulated_audio = <<>>
        /\ buffer.last_processed_buffer_length = 0

\* ------------------------------------------------------------------------
\* Claims on RealtimeTranscriptionEngine (EngineSpec)
\* ------------------------------------------------------------------------
\* the results the worker has put for task id
ResultsOf(id) == { i \in DOMAIN produced : produced[i].task = id }

\* a text the filter lets through: non-empty after trimming and not denylisted
Passes(text) == Strip(text) # <<>> /\ Strip(text) \notin HALLUCINATION_TEXTS

\* C8: every task yields at most one entry on the result queue; no entry ever
\* put on the result queue has a transcription that is empty after trimming or
\* that equals a denylisted phrase after trimming; a task for which the engine
\* returned a denylisted phrase, padded with whitespace or not, has no entry.
C8_FilteredAtMostOnce ==
    /\ \A id \in DOMAIN submitted : Cardinality(ResultsOf(id)) <= 1
    /\ \A i \in DOMAIN produced : Passes(produced[i].transcription)
    /\ \A i \in DOMAIN result_queue : Passes(result_queue[i].transcription)
    /\ \A id \in DOMAIN ended :
          Strip(ended[id].text) \in HALLUCINATION_TEXTS => ResultsOf(id) = {}

\* C8 witness: the engine returned a denylisted phrase with whitespace on both
\* sides for one task, and a passing text for another.
C8_Witness ==
    /\ \E id \in DOMAIN ended :
          /\ ended[id].how = "returned"
          /\ ended[id].text \notin HALLUCINATION_TEXTS
          /\ Strip(ended[id].text) \in HALLUCINATION_TEXTS
          /\ Head(ended[id].text) \in Whitespace
          /\ ended[id].text[Len(ended[id].text)] \in Whitespace
    /\ produced # <<>>

Finished(id) == id \in DOMAIN ended

WorkersAlive == is_running => \A w \in DOMAIN workers : workers[w].pc # "exited"

\* task j was enqueued after a task on which the worker failed
AfterFailure(j) ==
    /\ j \in DOMAIN submitted
    /\ \E i \in DOMAIN ended : i < j /\ ended[i].how = "raised"

\* C9: a failure while processing one task drops only that task: no worker
\* thread ends while the engine is running, the failing step leaves is_running
\* as it was, and every task enqueued after the failing one is still dequeued
\* and processed.
C9_FailureIsolated ==
    /\ []WorkersAlive
    /\ [][\A w \in DOMAIN workers :
            (workers[w].pc = "transcribe" /\ workers'[w].pc # "transcribe")
               => is_running' = is_running]_vars
    /\ \A j \in 1..MaxTasks : AfterFailure(j) ~> Finished(j)

\* C9 witness: the worker failed on one task and has since produced the result
\* of a later one.
C9_Witness ==
    \E i \in DOMAIN ended, j \in DOMAIN ended :
        /\ i < j
        /\ ended[i].how = "raised"
        /\ ResultsOf(j) # {}

\* task id is finished, with its result on record if it was due one
Settled(id) ==
    /\ id \in DOMAIN ended
    /\ ( /\ ByteLen(submitted[id].audio_data) >= MinTaskBytes
         /\ ended[id].how = "returned"
         /\ Passes(ended[id].text) ) => ResultsOf(id) # {}

Accepted(id) == id \in DOMAIN submitted

\* C10: with the single worker, every task submit_audio accepted is eventually
\* dequeued and finished, and if its chunk is at least the minimum size and the
\* engine returned a text that is non-empty and not denylisted, its result has
\* been put on the result queue.
C10_NoTaskLost == \A id \in 1..MaxTasks : Accepted(id) ~> Settled(id)

\* C10 witness: while the worker is busy with a task of one speaker, two more
\* tasks of that speaker, both of at least the minimum size, wait in the queue.
C10_Witness ==
    \E w \in DOMAIN workers :
        /\ workers[w].pc = "transcribe"
        /\ Len(transcription_queue) >= 2
        /\ \A i \in DOMAIN transcription_queue :
              /\ transcription_queue[i].user_id = workers[w].task[1].user_id
              /\ transcription_queue[i].guild_id = workers[w].task[1].guild_id
              /\ ByteLen(transcription_queue[i].audio_data) >= MinTaskBytes

\* ------------------------------------------------------------------------
\* Claims on the sessions (Spec, SpeakersSpec, GuildsSpec)
\* ------------------------------------------------------------------------
Range(seq) == { seq[i] : i \in DOMAIN seq }

\* C3 as stated: with the sessions of two guilds sharing the engine, a result
\* for guild G is only ever sent to a channel of G, and no polling loop of
\* another guild takes it off the result queue and drops it (so that it can
\* still be sent to G's channel).
C3_RoutedToOwnGuild ==
    /\ \A i \in DOMAIN sent : sent[i].channel[1] = sent[i].result.guild_id
    /\ \A i \in DOMAIN discarded : discarded[i].by = discarded[i].result.guild_id

\* the step is stop_processing for guild g: its text channel is released
Stops(g) == g \in DOMAIN text_channels /\ g \notin DOMAIN text_channels'

\* C4 as stated: stop_processing flushes every speaker buffer that holds audio
\* into a final task, and the results of the session's tasks that are complete
\* (they are on the result queue when the stop begins, so inside any drain
\* timeout) have been sent to the session's channel when the session is Idle.
C4_StopDrainsResults ==
    [][Stops(1) =>
         /\ \A i \in DOMAIN audio_buffers[1] :
               audio_buffers[1][i].accumulated_audio # <<>> =>
                  \E k \in DOMAIN submitted' :
                     /\ k > Len(submitted)
                     /\ submitted'[k].user_id = audio_buffers[1][i].user_id
         /\ \A i \in DOMAIN result_queue :
               result_queue[i].guild_id = 1 =>
                  \E k \in DOMAIN sent' :
                     /\ sent'[k].result = result_queue[i]
                     /\ sent'[k].channel = text_channels[1]]_vars

\* C5 as stated: once the session's buffers are deleted and no process_audio
\* call is in progress, every block add_audio appended for a speaker of the
\* guild is in some task submitted to the transcription queue.
C5_NoAudioDropped ==
    (1 \notin DOMAIN audio_buffers /\ transport[1].pc = "idle") =>
        \A u \in Users : \A n \in 1..fed[<<1, u>>] :
            \E k \in DOMAIN submitted : <<1, u, n>> \in Range(submitted[k].audio_data)

\* the step is the !join of guild g reaching start_processing
BecomesActive(g) ==
    /\ command[g].pc = "join_connect"
    /\ command'[g].pc = "idle"
    /\ g \in DOMAIN connections'
    /\ connections'[g].connected
    /\ voice_processor = "ready"

\* C6 as stated: when a !join makes the session Active, the guild's buffer map
\* is fresh and the polling and periodic loops are tasks created by this start
\* (no loop of an earlier session still runs), whether or not the old voice
\* client still reported is_connected.
C6_JoinStartsFresh ==
    [][BecomesActive(1) =>
         /\ audio_buffers'[1] = <<>>
         /\ result_polling_tasks'[1].id > ntasks
         /\ periodic_chunk_processing_tasks'[1].id > ntasks]_vars

\* the step removes user u's buffer from the map of guild g, which stays Active
Departs(g, u) ==
    /\ g \in DOMAIN audio_buffers
    /\ g \in DOMAIN audio_buffers'
    /\ FindBuf(audio_buffers[g], u) # 0
    /\ FindBuf(audio_buffers'[g], u) = 0

\* the audio of buffer b that get_audio_chunk has not handed out yet
Remaining(b) ==
    Slice(b.accumulated_audio, b.last_processed_buffer_length, ByteLen(b.accumulated_audio))

\* C7 as stated: a departure removes that speaker's buffer and leaves the other
\* buffers as they were; the speaker's remaining audio (from the cursor on) is
\* submitted as exactly one task attributed to the speaker if it is non-empty,
\* and no task is submitted if it is empty.
C7_DepartureFlushesOne ==
    [][\A u \in Users : Departs(1, u) =>
         LET i == FindBuf(audio_buffers[1], u)
             b == audio_buffers[1][i]
         IN  /\ audio_buffers'[1] = RemoveAt(audio_buffers[1], i)
             /\ IF Remaining(b) # <<>>
                THEN /\ Len(submitted') = Len(submitted) + 1
                     /\ submitted'[Len(submitted')].user_id = u
                     /\ submitted'[Len(submitted')].username = Name(u)
                     /\ submitted'[Len(submitted')].guild_id = 1
                     /\ submitted'[Len(submitted')].audio_data = Remaining(b)
                     /\ transcription_queue' = Append(transcription_queue,
                                                      submitted'[Len(submitted')])
                ELSE /\ submitted' = submitted
                     /\ transcription_queue' = transcription_queue]_vars

\* ------------------------------------------------------------------------
\* Claims on the engine restarted (RestartSpec)
\* ------------------------------------------------------------------------
\* the tasks the worker threads hold
HeldTasks == { workers[w].task[1].id : w \in { v \in DOMAIN workers : workers[v].task # None } }

\* C11 as stated, in its safety part: every chunk handed to submit_audio has
\* been enqueued (none is silently not enqueued), whatever start() and stop()
\* calls came before; a task is in the queue, or held by exactly one worker, or
\* finished, and never two of these (no task is processed twice or by two
\* workers).
C11_EnqueuedOnceConsumedOnce ==
    /\ handed = Len(submitted)
    /\ \A w1, w2 \in DOMAIN workers :
          (w1 # w2 /\ workers[w1].task # None /\ workers[w2].task # None)
             => workers[w1].task[1].id # workers[w2].task[1].id
    /\ \A id \in DOMAIN submitted :
          Cardinality({ i \in DOMAIN transcription_queue : transcription_queue[i].id = id })
            + (IF id \in HeldTasks THEN 1 ELSE 0)
            + (IF id \in DOMAIN ended THEN 1 ELSE 0) = 1

\* ------------------------------------------------------------------------
\* Claims on the session without a speech engine (Spec)
\* ------------------------------------------------------------------------
\* C12 as stated: when on_ready failed to load the Whisper model, a !join that
\* connects still starts the session, in capture-only mode: while the bot is
\* connected the guild is Active (it has its buffer map and text channel, the
\* sink is listening, the worker is started, so frames are buffered and tasks
\* submitted), and the result queue stays empty.
C12_DegradedSessionStarts ==
    voice_processor = "none" =>
        /\ result_queue = <<>>
        /\ (1 \in DOMAIN connections /\ connections[1].connected /\ command[1].pc = "idle")
              => /\ 1 \in DOMAIN audio_buffers
                 /\ 1 \in DOMAIN text_channels
                 /\ connections[1].listening
                 /\ is_running

\* C13: every result ever put on the result queue carries the user_id, the
\* username and the guild_id of the task whose audio the engine was given for
\* its text, and its text is that task's transcription, trimmed; this with
\* tasks of two speakers in the queue and in the hands of two workers.
C13_NoCrossTalk ==
    \A i \in DOMAIN produced :
        LET r == produced[i]
        IN  /\ r.task \in DOMAIN submitted
            /\ r.task \in DOMAIN ended
            /\ r.user_id = submitted[r.task].user_id
            /\ r.username = submitted[r.task].username
            /\ r.guild_id = submitted[r.task].guild_id
            /\ r.transcription = Strip(ended[r.task].text)

\* C13 witness: the results of two tasks of two different speakers are on
\* record, the task submitted first having finished last (two workers held
\* them at the same time).
C13_Witness ==
    \E i, j \in DOMAIN produced :
        /\ i < j
        /\ produced[i].task > produced[j].task
        /\ produced[i].user_id # produced[j].user_id
        /\ produced[i].guild_id # produced[j].guild_id

\* ------------------------------------------------------------------------
\* Claims on one utterance (UtteranceSpec)
\* ------------------------------------------------------------------------
\* the step is the flush of process_audio at the utterance end, the periodic
\* loop having made a pass over the complete utterance before
UtteranceEnds ==
    /\ transport[1].pc = "flush"
    /\ transport'[1].pc = "idle"
    /\ TransportBuffer(1).last_processed_buffer_length > 0

\* C14 as stated: for the utterance of 1.5 s, one task was submitted before
\* the utterance end, the one chunk of REALTIME_CHUNK_BYTES from the start of
\* the utterance (no later pass of the periodic loop added another), and the
\* flush at the utterance end submits the second and last task, which carries
\* the remainder: the audio from the cursor on.
C14_OneChunkThenRemainder ==
    [][UtteranceEnds =>
         /\ Len(submitted) = 1
         /\ submitted[1].audio_data =
               Slice(TransportBuffer(1).accumulated_audio, 0, REALTIME_CHUNK_BYTES)
         /\ Len(submitted') = 2
         /\ submitted'[2].user_id = 1
         /\ submitted'[2].audio_data = Remaining(TransportBuffer(1))]_vars

\* ------------------------------------------------------------------------
\* Claims on the two threads of one buffer (RaceSpec)
\* ------------------------------------------------------------------------
\* C15 as stated: whatever the interleaving of the transport thread and the
\* event loop on one buffer, once both are outside their calls the buffer is in
\* a state that the calls run one after another can produce: the cursor is not
\* beyond the accumulator, and a chunk returned is REALTIME_CHUNK_BYTES long.
C15_NoTornBuffer ==
    (race.transport.pc = "idle" /\ race.loop.pc = "idle") =>
        /\ buffer.last_processed_buffer_length <= ByteLen(buffer.accumulated_audio)
        /\ (last_call.op = "get_audio_chunk" /\ last_call.ret # None)
              => ByteLen(last_call.ret[1]) = REALTIME_CHUNK_BYTES


\* ------------------------------------------------------------------------
\* The engine is used by the worker thread only
\* ------------------------------------------------------------------------
\* A step in which the speech engine ran: a task ended or a result was made.
EngineRan == ended' # ended \/ produced' # produced \/ Len(result_queue') > Len(result_queue)

\* A step of a worker thread that finishes the task it took or skips one.
WorkerFinishes ==
    \E w \in DOMAIN workers :
        /\ workers[w].pc \in {"get", "transcribe"}
        /\ workers'[w].pc = "check"
        /\ \A v \in DOMAIN workers \ {w} : workers'[v] = workers[v]

\* A step of process_audio, the periodic loop, the departure handler or
\* stop_processing that hands audio to submit_audio.
HandsAudio == handed' # handed

\* A worker thread is inside the transcription of a task.
EngineBusy == \E w \in DOMAIN workers : workers[w].pc = "transcribe"

\* C16: the engine runs in worker steps only, which touch neither the buffers
\* nor the transport thread; a step that hands audio over appends one task per
\* hand-over to the transcription queue at once, and leaves the workers, the
\* result queue and the engine's outcomes alone; and the flush of process_audio
\* and the pass of the periodic loop can be taken whatever the workers are doing.
C16_EngineOnlyInWorker ==
    /\ [][/\ EngineRan =>
               /\ WorkerFinishes
               /\ UNCHANGED <<audio_buffers, transport, handed, submitted>>
          /\ HandsAudio =>
               /\ UNCHANGED <<workers, result_queue, ended, produced>>
               /\ is_running =>
                     /\ Len(transcription_queue') = Len(transcription_queue) + (handed' - handed)
                     /\ Len(submitted') = Len(submitted) + (handed' - handed)]_vars
    /\ [](/\ transport[1].pc = "flush" => ENABLED TransportFlush(1)
          /\ (1 \in DOMAIN periodic_chunk_processing_tasks
                 /\ ~periodic_chunk_processing_tasks[1].done) => ENABLED PeriodicTick(1))

\* C16 witness: a task waits in the transcription queue, handed over while a
\* worker was busy transcribing an earlier one.
C16_Witness ==
    /\ EngineBusy
    /\ transcription_queue # <<>>
    /\ \E w \in DOMAIN workers :
          /\ workers[w].task # None
          /\ \E i \in DOMAIN transcription_queue :
                transcription_queue[i].id > workers[w].task[1].id

\* ------------------------------------------------------------------------
\* One buffer, call by call
\* ------------------------------------------------------------------------
\* The step is a call of op on the buffer (a call that changes nothing and
\* returns what the call before it returned is a stuttering step).
Calls(op) ==
    /\ last_call'.op = op
    /\ last_call.op # op \/ last_call'.pre # last_call.pre \/ buffer' # buffer

\* C17: a get_remaining_audio leaves the accumulator empty; one called on an
\* empty accumulator returns None, never an empty chunk; and between two
\* get_remaining_audio calls only add_audio puts bytes into the accumulator,
\* get_audio_chunk and the clock do not.
C17_SecondFlushIsNone ==
    /\ [](last_call.op = "get_remaining_audio" =>
             /\ last_call.ret # Some(<<>>)
             /\ (last_call.ret = None) = (last_call.pre.accumulated_audio = <<>>)
             /\ (buffer.accumulated_audio = <<>> =>
                    get_remaining_audio(buffer).ret = None))
    /\ [][/\ Calls("get_remaining_audio") =>
               /\ buffer'.accumulated_audio = <<>>
               /\ buffer.accumulated_audio = <<>> => last_call'.ret = None
          /\ buffer'.accumulated_audio # buffer.accumulated_audio =>
               Calls("add_audio") \/ Calls("get_remaining_audio")]_vars

\* C17 witness: audio was added, a get_remaining_audio emptied the accumulator,
\* and get_remaining_audio has just been called again on the empty accumulator.
C17_Witness ==
    /\ last_call.op = "get_remaining_audio"
    /\ last_call.pre.accumulated_audio = <<>>
    /\ last_call.ret = None
    /\ fed[<<1, 1>>] > 0

\* The frames added to the buffer of speaker 1 after the first `first` blocks,
\* concatenated in arrival order.
FramesSince(first) == [i \in 1..(fed[<<1, 1>>] - first) |-> <<1, 1, first + i>>]

\* The accumulator is the concatenation of the frames added since it was last
\* emptied.
HoldsFramesInOrder ==
    buffer.accumulated_audio =
        FramesSince(fed[<<1, 1>>] - Len(buffer.accumulated_audio))

C19_UtteranceEndSignal ==
    [][Calls("add_audio") =>
         LET speech == last_call'.has_speech
             elapsed == now - buffer.last_speech_time
             ends == /\ buffer.is_speaking
                     /\ ~speech
                     /\ elapsed > SILENCE_THRESHOLD_MS
                     /\ buffer'.accumulated_audio # <<>>
         IN  /\ last_call'.ret = ends
             /\ ends => ~buffer'.is_speaking
             /\ (buffer.is_speaking /\ ~speech /\ elapsed <= SILENCE_THRESHOLD_MS) =>
                   /\ buffer'.is_speaking
                   /\ buffer'.last_speech_time = buffer.last_speech_time
             /\ speech =>
                   /\ buffer'.last_speech_time = now
                   /\ buffer'.is_speaking]_vars

\* C19 witness: add_audio has just signalled the end of an utterance.
C19_Witness ==
    /\ last_call.op = "add_audio"
    /\ last_call.ret = TRUE
    /\ last_call.pre.is_speaking
    /\ ~last_call.has_speech
    /\ ~buffer.is_speaking

\* ------------------------------------------------------------------------
\* Silence outside an utterance
\* ------------------------------------------------------------------------
\* The step is process_audio's add_audio on the buffer the guild's dict holds.
AddsToDictBuffer == transport[1].pc = "add" /\ transport'[1].pc # "add" /\ transport[1].buf = None

\* The buffer the dict of guild g holds for user u.
DictBuffer(g, u) == audio_buffers[g][FindBuf(audio_buffers[g], u)]

\* Speaker 1 has sent one frame so far, the gate found no speech in it, and
\* process_audio has returned.
OnlySilentFrame ==
    /\ transport[1].pc = "idle"
    /\ 1 \in DOMAIN audio_buffers
    /\ FindBuf(audio_buffers[1], 1) # 0
    /\ fed[<<1, 1>>] = ResampledBytes(MaxFrameBlocks * RawBlockBytes) \div BlockBytes
    /\ ~DictBuffer(1, 1).is_speaking

\* C20: add_audio of a frame without speech on a buffer that is not speaking
\* leaves is_speaking, last_speech_time and the cursor as they were, appends
\* the frame to the accumulator and signals nothing; while a speaker has sent
\* only one such frame nothing of theirs is handed to the engine and the buffer
\* holds the frame; and stop_processing then gets exactly that frame from
\* get_remaining_audio.
C20_SilentFrameKept ==
    /\ [][AddsToDictBuffer =>
            LET b == TransportBuffer(1)
                frame == ResampledFrame(1, 1, transport[1].raw)
                speech == apply_vad(ByteLen(frame), transport[1].classifier)
                b2 == audio_buffers'[1][FindBuf(audio_buffers[1], 1)]
            IN  (~speech /\ ~b.is_speaking) =>
                   /\ b2.is_speaking = b.is_speaking
                   /\ b2.last_speech_time = b.last_speech_time
                   /\ b2.last_processed_buffer_length = b.last_processed_buffer_length
                   /\ b2.accumulated_audio = b.accumulated_audio \o frame
                   /\ transport'[1].pc = "idle"
                   /\ handed' = handed]_vars
    /\ [](OnlySilentFrame =>
            /\ handed = 0
            /\ DictBuffer(1, 1).accumulated_audio = FramesSince(0)
            /\ DictBuffer(1, 1).last_processed_buffer_length = 0
            /\ get_audio_chunk(DictBuffer(1, 1)).ret = None)
    /\ [][(OnlySilentFrame /\ Stops(1)) =>
            /\ get_remaining_audio(DictBuffer(1, 1)).ret = Some(FramesSince(0))
            /\ handed' = 1
            /\ 1 \notin DOMAIN audio_buffers']_vars

\* C20 witness: one silent frame went through process_audio, the periodic loop
\* has had time to run, and the session is still active.
C20_Witness ==
    /\ OnlySilentFrame
    /\ 1 \in DOMAIN text_channels
    /\ now > 0
    /\ DictBuffer(1, 1).accumulated_audio # <<>>

\* ------------------------------------------------------------------------
\* The minimum task size
\* ------------------------------------------------------------------------
\* The audio of task id is shorter than half a chunk.
Short(id) == ByteLen(submitted[id].audio_data) < MinTaskBytes

\* task j was enqueued after a task the worker skipped
AfterSkip(j) ==
    /\ j \in DOMAIN submitted
    /\ \E i \in DOMAIN ended : i < j /\ ended[i].how = "skipped"

\* A buffer holding k blocks of speaker 1, nothing of it taken yet.
BufferOf(k) == [NewBuffer(1, Name(1)) EXCEPT !.accumulated_audio = TaskAudio(1, 1, k)]

\* C21: a worker never has a task shorter than REALTIME_CHUNK_BYTES \div 2 at
\* the engine; such a task is taken off the queue and ends as skipped, with no
\* result, in a step after which the worker is back at the head of its loop,
\* and the tasks behind it are still finished; get_remaining_audio itself
\* returns an accumulator of any length, shorter than the minimum included.
C21_ShortTaskSkipped ==
    /\ [](/\ \A w \in DOMAIN workers :
                workers[w].pc = "transcribe" =>
                    ByteLen(workers[w].task[1].audio_data) >= MinTaskBytes
          /\ \A id \in DOMAIN ended :
                /\ Short(id) = (ended[id].how = "skipped")
                /\ Short(id) => ResultsOf(id) = {}
          /\ \A k \in 1..(REALTIME_CHUNK_BYTES \div BlockBytes) :
                get_remaining_audio(BufferOf(k)).ret = Some(TaskAudio(1, 1, k)))
    /\ [][\A w \in DOMAIN workers :
            ( /\ workers[w].pc = "get"
              /\ workers'[w].pc # "get"
              /\ transcription_queue # <<>>
              /\ ByteLen(Head(transcription_queue).audio_data) < MinTaskBytes )
               => /\ workers'[w].pc = "check"
                  /\ transcription_queue' = Tail(transcription_queue)
                  /\ UNCHANGED <<result_queue, produced>>]_vars
    /\ \A j \in 1..MaxTasks : AfterSkip(j) ~> Finished(j)

\* C21 witness: the worker skipped a short task and has since produced the
\* result of a later one.
C21_Witness ==
    \E i \in DOMAIN ended, j \in DOMAIN ended :
        /\ i < j
        /\ ended[i].how = "skipped"
        /\ Short(i)
        /\ ResultsOf(j) # {}

\* ------------------------------------------------------------------------
\* The polling loop
\* ------------------------------------------------------------------------
\* The step is a pass of _result_polling_loop that took something off the
\* result queue (nothing else takes from it).
PollPass == Len(result_queue') < Len(result_queue)

\* The messages for the results rs, in order, on channel ch.
Messages(rs, ch) == [i \in DOMAIN rs |-> [channel |-> ch, result |-> rs[i]]]

\* C22 as stated: a pass of the polling loop leaves the result queue empty and
\* sends every result that was on it, in queue order, to the guild's channel.
C22_PassDrainsAll ==
    [][PollPass =>
         /\ result_queue' = <<>>
         /\ sent' = sent \o Messages(result_queue, text_channels[1])]_vars

\* ------------------------------------------------------------------------
\* Frames outside a session
\* ------------------------------------------------------------------------
\* A frame of speaker 1 reaches the sink of guild 1 and process_audio changes
\* something.
FrameTakesEffect ==
    \E rawBytes \in SessionFrameLens, c \in SessionVad :
        <<SessionWrite(1, 1, rawBytes, c)>>_vars

\* The step is process_audio taking up a frame.
TakesFrame == transport[1].pc = "idle" /\ transport'[1].pc = "add"

\* C23: with no entry for the guild in audio_buffers a frame that reaches
\* process_audio changes nothing (no buffer, no task, no other state); a frame
\* is taken up only in a started session; taking up a frame of a speaker
\* without a buffer adds one new buffer for that speaker and a frame of a
\* speaker with a buffer adds none; no map holds two buffers of one speaker;
\* and add_audio on the map's buffer changes that buffer only.
C23_FramesOnlyWhileActive ==
    /\ [](/\ 1 \notin DOMAIN audio_buffers => ~ENABLED FrameTakesEffect
          /\ \A g \in DOMAIN audio_buffers :
                \A i, j \in DOMAIN audio_buffers[g] :
                    audio_buffers[g][i].user_id = audio_buffers[g][j].user_id => i = j)
    /\ [][/\ TakesFrame =>
               /\ 1 \in DOMAIN audio_buffers
               /\ 1 \in DOMAIN text_channels
               /\ connections[1].listening
               /\ UNCHANGED <<engineVars, historyVars, fed>>
               /\ audio_buffers'[1] =
                     IF FindBuf(audio_buffers[1], transport'[1].user) = 0
                     THEN Append(audio_buffers[1],
                                 NewBuffer(transport'[1].user, Name(transport'[1].user)))
                     ELSE audio_buffers[1]
          /\ AddsToDictBuffer =>
               /\ Len(audio_buffers'[1]) = Len(audio_buffers[1])
               /\ \A i \in DOMAIN audio_buffers[1] :
                     i # FindBuf(audio_buffers[1], transport[1].user) =>
                         audio_buffers'[1][i] = audio_buffers[1][i]]_vars

\* C23 witness: the session of guild 1 has been stopped after it took frames,
\* the voice client still listens, and a further frame could be delivered.
C23_Witness ==
    /\ 1 \notin DOMAIN audio_buffers
    /\ 1 \in DOMAIN connections
    /\ connections[1].listening
    /\ transport[1].pc = "idle"
    /\ fed[<<1, 1>>] > 0
    /\ fed[<<1, 1>>] + MaxFrameBlocks <= MaxFed

\* ------------------------------------------------------------------------
\* The chunks of one utterance
\* ------------------------------------------------------------------------
\* The step is a get_audio_chunk that returns a chunk.
ReturnsChunk == Calls("get_audio_chunk") /\ last_call'.ret # None

\* The ends of the first, second, ... chunk cut since the last flush.
ChunkEnds ==
    { REALTIME_CHUNK_BYTES + k * (REALTIME_CHUNK_BYTES - OverlapBytes) : k \in 0..MaxBufBlocks }

\* C24: since the last flush the cursor is 0 or the end of the last chunk cut;
\* the first chunk is the accumulator from offset 0, every later chunk is the
\* accumulator from OverlapBytes before the end of the chunk before it, each
\* REALTIME_CHUNK_BYTES long, so that the chunks cover the accumulator from 0
\* to the cursor without a gap; every chunk returned moves the cursor forward,
\* and only get_remaining_audio moves it back.
C24_ChunksCoverPrefix ==
    /\ [](buffer.last_processed_buffer_length \in {0} \cup ChunkEnds)
    /\ [][/\ ReturnsChunk =>
               LET cursor == buffer.last_processed_buffer_length
                   start == IF cursor = 0 THEN 0 ELSE cursor - OverlapBytes
               IN  /\ start >= 0
                   /\ start <= cursor
                   /\ last_call'.ret =
                         Some(Slice(buffer.accumulated_audio, start, start + REALTIME_CHUNK_BYTES))
                   /\ Len(last_call'.ret[1]) = REALTIME_CHUNK_BYTES \div BlockBytes
                   /\ buffer'.last_processed_buffer_length = start + REALTIME_CHUNK_BYTES
                   /\ buffer'.last_processed_buffer_length > cursor
                   /\ buffer'.accumulated_audio = buffer.accumulated_audio
          /\ buffer'.last_processed_buffer_length < buffer.last_processed_buffer_length =>
               /\ Calls("get_remaining_audio")
               /\ buffer'.last_processed_buffer_length = 0]_vars

\* C24 witness: the second chunk since the last flush has been returned; it
\* begins with the block that lies OverlapBytes before the end of the first.
C24_Witness ==
    /\ last_call.op = "get_audio_chunk"
    /\ last_call.ret # None
    /\ last_call.pre.last_processed_buffer_length = REALTIME_CHUNK_BYTES
    /\ buffer.last_processed_buffer_length = 2 * REALTIME_CHUNK_BYTES - OverlapBytes
    /\ last_call.ret[1][1] =
          buffer.accumulated_audio[((REALTIME_CHUNK_BYTES - OverlapBytes) \div BlockBytes) + 1]

\* ------------------------------------------------------------------------
\* Results across sessions
\* ------------------------------------------------------------------------
\* C25 as stated: every message sent carries a result whose task was handed
\* over while the guild's session had the text channel the message went to.
C25_SentToOwnSession ==
    \A i \in DOMAIN sent :
        submitted[sent[i].result.task].channel = Some(sent[i].channel)

\* ------------------------------------------------------------------------
\* Audio left in a buffer
\* ------------------------------------------------------------------------
\* Block n of speaker 1 lies in the speaker's buffer beyond the cursor, no
\* call of process_audio is in progress, the speaker was heard speaking and
\* the last speech is more than SILENCE_THRESHOLD_MS ago.
Residual(n) ==
    /\ transport[1].pc = "idle"
    /\ 1 \in DOMAIN audio_buffers
    /\ FindBuf(audio_buffers[1], 1) # 0
    /\ DictBuffer(1, 1).is_speaking
    /\ <<1, 1, n>> \in Range(Remaining(DictBuffer(1, 1)))
    /\ now - DictBuffer(1, 1).last_speech_time > SILENCE_THRESHOLD_MS

\* Block n of speaker 1 is in a task handed to the engine.
Submitted(n) == \E k \in DOMAIN submitted : <<1, 1, n>> \in Range(submitted[k].audio_data)

\* C26 as stated: in a session that stays Active, audio that lies beyond the
\* cursor when the speaker has been quiet for longer than SILENCE_THRESHOLD_MS
\* is eventually in a submitted task, whether or not another frame comes.
C26_ResidualEventuallySubmitted ==
    \A n \in 1..MaxFed : Residual(n) ~> Submitted(n)

=========================================================================
